---- MODULE Spec2Model ----
(***************************************************************************)
(* password_generator.py: the strength meter check_password_strength and   *)
(* the password generator (generate_strong_password and the branch of main *)
(* that generates without special characters).                             *)
(*                                                                         *)
(* A character is a one-character string and a password a sequence of      *)
(* characters.  Scores are counted in half points (the code adds 1 and     *)
(* 0.5, so every score is a multiple of 0.5): a model score of 7 is the    *)
(* code's 3.5.                                                             *)
(***************************************************************************)
EXTENDS Integers, Sequences, FiniteSets, TLC

VARIABLES
    pc,                 \* position: which call is made and how far it got
    password,           \* argument of check_password_strength
    result,             \* the tuple check_password_strength returned
    length,             \* the length asked of the generator (slider / argument)
    include_special,    \* the checkbox "Include Special Characters"
    rng,                \* state of the random module's generator
    gen_length,         \* generator's local length, after the clamp
    remaining_length,   \* fill characters still to draw
    i,                  \* index of random.shuffle's loop (0-based)
    generated_password  \* the generator's character list / returned string

vars == <<pc, password, result, length, include_special, rng, gen_length,
          remaining_length, i, generated_password>>

---------------------------------------------------------------------------
(* string module constants and the special characters *)

ascii_lowercase ==
    <<"a","b","c","d","e","f","g","h","i","j","k","l","m",
      "n","o","p","q","r","s","t","u","v","w","x","y","z">>

ascii_uppercase ==
    <<"A","B","C","D","E","F","G","H","I","J","K","L","M",
      "N","O","P","Q","R","S","T","U","V","W","X","Y","Z">>

digits == <<"0","1","2","3","4","5","6","7","8","9">>

special_chars == <<"!","@","#","$","%","^","&","*">>

Range(s) == {s[k] : k \in DOMAIN s}

---------------------------------------------------------------------------
(* check_password_strength *)

\* re.search of a one-character class: some character of the password is in it
re_search_class(class, p) == \E k \in DOMAIN p : p[k] \in class

\* str.lower(): A-Z go to a-z, every other character of the model stays
lower(p) ==
    [k \in DOMAIN p |->
        IF \E n \in DOMAIN ascii_uppercase : ascii_uppercase[n] = p[k]
        THEN ascii_lowercase[CHOOSE n \in DOMAIN ascii_uppercase :
                                 ascii_uppercase[n] = p[k]]
        ELSE p[k]]

\* the alternatives of the sequential-characters regular expression
sequential_patterns ==
    { <<"a","b","c">>, <<"b","c","d">>, <<"c","d","e">>, <<"d","e","f">>,
      <<"e","f","g">>, <<"f","g","h">>, <<"g","h","i">>, <<"h","i","j">>,
      <<"i","j","k">>, <<"j","k","l">>, <<"k","l","m">>, <<"l","m","n">>,
      <<"m","n","o">>, <<"n","o","p">>, <<"o","p","q">>, <<"p","q","r">>,
      <<"q","r","s">>, <<"r","s","t">>, <<"s","t","u">>, <<"t","u","v">>,
      <<"u","v","w">>, <<"v","w","x">>, <<"w","x","y">>, <<"x","y","z">>,
      <<"0","1","2">>, <<"1","2","3">>, <<"2","3","4">>, <<"3","4","5">>,
      <<"4","5","6">>, <<"5","6","7">>, <<"6","7","8">>, <<"7","8","9">>,
      <<"8","9","0">> }

\* variant: an empty alternative in the regular expression, (abc|...|890|),
\* which matches every string
has_sequential_empty_alt(p) == TRUE

\* re.search(r'(abc|bcd|...|890)', password.lower())
has_sequential(p) ==
    \E k \in 1..(Len(p) - 2) :
        <<lower(p)[k], lower(p)[k+1], lower(p)[k+2]>> \in sequential_patterns

\* variant: the quantifier {1,} instead of {2,}
has_repeated_pair(p) ==
    \E k \in 1..(Len(p) - 1) : p[k] # "\n" /\ p[k+1] = p[k]

\* re.search(r'(.)\1{2,}', password): "." matches any character but a newline
has_repeated(p) ==
    \E k \in 1..(Len(p) - 2) :
        /\ p[k] # "\n"
        /\ p[k+1] = p[k]
        /\ p[k+2] = p[k]

common_passwords ==
    { <<"p","a","s","s","w","o","r","d">>,
      <<"1","2","3","4","5","6">>,
      <<"q","w","e","r","t","y">>,
      <<"a","d","m","i","n">>,
      <<"w","e","l","c","o","m","e">>,
      <<"p","a","s","s","w","o","r","d","1","2","3">> }

\* variant: the comparison without .lower()
is_common_cased(p) == p \in common_passwords

is_common(p) == lower(p) \in common_passwords

\* the feedback strings (without their leading cross mark)
FB_LENGTH_12 == "Password should ideally be at least 12 characters long for better security."
FB_LENGTH_8 == "Password must be at least 8 characters long."
FB_CASE == "Include both uppercase and lowercase letters."
FB_DIGIT == "Add at least one number (0-9)."
FB_SPECIAL == "Include at least one special character (!@#$%^&*)."
FB_SEQUENTIAL == "Avoid sequential characters like 'abc', '123', etc."
FB_REPEATED == "Avoid repeating the same character more than twice."
FB_COMMON == "This is a commonly used password and very insecure."

\* variant: the 8..11 branch appends no feedback
length_check_silent(p) ==
    IF Len(p) >= 12
    THEN [score |-> 2, check |-> "Pass", feedback |-> <<>>]
    ELSE IF Len(p) >= 8
    THEN [score |-> 1, check |-> "Partial", feedback |-> <<>>]
    ELSE [score |-> 0, check |-> "Fail", feedback |-> <<FB_LENGTH_8>>]

\* Each check gives [score |-> half points added, check |-> its entry of
\* checks, feedback |-> what it appends].
length_check(p) ==
    IF Len(p) >= 12
    THEN [score |-> 2, check |-> "Pass", feedback |-> <<>>]
    ELSE IF Len(p) >= 8
    THEN [score |-> 1, check |-> "Partial", feedback |-> <<FB_LENGTH_12>>]
    ELSE [score |-> 0, check |-> "Fail", feedback |-> <<FB_LENGTH_8>>]

case_check(p) ==
    IF /\ re_search_class(Range(ascii_uppercase), p)
       /\ re_search_class(Range(ascii_lowercase), p)
    THEN [score |-> 2, check |-> "Pass", feedback |-> <<>>]
    ELSE [score |-> 0, check |-> "Fail", feedback |-> <<FB_CASE>>]

digit_check(p) ==
    IF re_search_class(Range(digits), p)
    THEN [score |-> 2, check |-> "Pass", feedback |-> <<>>]
    ELSE [score |-> 0, check |-> "Fail", feedback |-> <<FB_DIGIT>>]

special_check(p) ==
    IF re_search_class(Range(special_chars), p)
    THEN [score |-> 2, check |-> "Pass", feedback |-> <<>>]
    ELSE [score |-> 0, check |-> "Fail", feedback |-> <<FB_SPECIAL>>]

sequential_check(p) ==
    IF has_sequential(p)
    THEN [score |-> -1, check |-> "Fail", feedback |-> <<FB_SEQUENTIAL>>]
    ELSE [score |-> 0, check |-> "Pass", feedback |-> <<>>]

repeated_check(p) ==
    IF has_repeated(p)
    THEN [score |-> -1, check |-> "Fail", feedback |-> <<FB_REPEATED>>]
    ELSE [score |-> 0, check |-> "Pass", feedback |-> <<>>]

\* score after the four positive checks
positive_score(p) ==
    length_check(p).score + case_check(p).score
        + digit_check(p).score + special_check(p).score

\* score after the two pattern checks, before the common-password check
pattern_score(p) ==
    positive_score(p) + sequential_check(p).score + repeated_check(p).score

\* score after the common-password check, before the clamp
raw_score(p) == IF is_common(p) THEN 0 ELSE pattern_score(p)

\* variant: no clamp
clamp_score_none(s) == s

\* score = max(0, score)
clamp_score(s) == IF s > 0 THEN s ELSE 0

final_score(p) == clamp_score(raw_score(p))

\* int(): truncation toward zero, of s half points times 25
int_score_25(s) ==
    IF s >= 0 THEN (s * 25) \div 2 ELSE -(((-s) * 25) \div 2)

\* variant: round() instead of int()
normalize_round(s) ==
    IF (s * 25 + 1) \div 2 < 100 THEN (s * 25 + 1) \div 2 ELSE 100

\* min(int(score * 25), 100)
normalize(s) == IF int_score_25(s) < 100 THEN int_score_25(s) ELSE 100

\* variant: Moderate from score > 3 instead of score >= 3
rating_strict(s) ==
    IF s >= 8
    THEN [strength |-> "Strong",
          message |-> "Strong Password! Your password meets all security criteria.",
          color |-> "green"]
    ELSE IF s > 6
    THEN [strength |-> "Moderate",
          message |-> "Moderate Password - Consider improving using the suggestions below.",
          color |-> "orange"]
    ELSE [strength |-> "Weak",
          message |-> "Weak Password - Please improve it using the suggestions below.",
          color |-> "red"]

\* the strength rating: strength, message and color for a score
rating(s) ==
    IF s >= 8
    THEN [strength |-> "Strong",
          message |-> "Strong Password! Your password meets all security criteria.",
          color |-> "green"]
    ELSE IF s >= 6
    THEN [strength |-> "Moderate",
          message |-> "Moderate Password - Consider improving using the suggestions below.",
          color |-> "orange"]
    ELSE [strength |-> "Weak",
          message |-> "Weak Password - Please improve it using the suggestions below.",
          color |-> "red"]

feedback_of(p) ==
    length_check(p).feedback \o case_check(p).feedback
        \o digit_check(p).feedback \o special_check(p).feedback
        \o sequential_check(p).feedback \o repeated_check(p).feedback
        \o (IF is_common(p) THEN <<FB_COMMON>> ELSE <<>>)

checks_of(p) ==
    [length |-> length_check(p).check,
     case |-> case_check(p).check,
     digit |-> digit_check(p).check,
     special |-> special_check(p).check,
     no_patterns |-> IF sequential_check(p).check = "Fail"
                        \/ repeated_check(p).check = "Fail"
                     THEN "Fail" ELSE "Pass",
     not_common |-> IF is_common(p) THEN "Fail" ELSE "Pass"]

check_password_strength(p) ==
    [normalized_score |-> normalize(final_score(p)),
     strength |-> rating(final_score(p)).strength,
     message |-> rating(final_score(p)).message,
     feedback |-> feedback_of(p),
     checks |-> checks_of(p),
     color |-> rating(final_score(p)).color]

NoResult ==
    [normalized_score |-> 0, strength |-> "", message |-> "",
     feedback |-> <<>>, checks |-> <<>>, color |-> ""]

---------------------------------------------------------------------------
(* the random module *)

\* The generator behind random.choice and random.shuffle is deterministic
\* once seeded; the seed is unknown.  It is modelled by a linear
\* congruential generator whose initial state Init draws from 0..MaxSeed.
MaxSeed == 15

next_rng(x) == (37 * x + 23) % 162

\* _randbelow(n): a number in 0..n-1 drawn from the generator in state x
randbelow(x, n) == x % n

\* random.choice(seq) with the generator in state x
choice(x, seq) == seq[randbelow(x, Len(seq)) + 1]

---------------------------------------------------------------------------
(* the passwords given to check_password_strength *)

MaxSegs == 3

Segments ==
    { <<"p","a","s","s","w","o","r","d">>,
      <<"P","a","s","s","w","o","r","d">>,
      <<"1","2","3">>, <<"4","5">>, <<"6">>,
      <<"q","w","e","r","t","y">>,
      <<"A","d","m","i","n">>,
      <<"W","E","L","C","O","M","E">>,
      <<"A","b","c">>,
      <<"a","b","c">>,
      <<"a","a">>,
      <<"\n","\n","\n">>,
      <<"K","q","7","#">>,
      <<"Z","m","2","@","p","L","5","!">> }

RECURSIVE Concats(_)
Concats(n) ==
    IF n = 0 THEN {<<>>}
    ELSE Concats(n - 1) \cup {s \o t : s \in Concats(n - 1), t \in Segments}

\* three characters in a row of an alphabet, wrapping at its end
Run(alpha, k) ==
    <<alpha[k], alpha[(k % Len(alpha)) + 1], alpha[((k + 1) % Len(alpha)) + 1]>>

MixedRun(k) ==
    <<ascii_lowercase[k], ascii_uppercase[(k % 26) + 1],
      ascii_lowercase[((k + 1) % 26) + 1]>>

Runs ==
    {Run(alpha, k) : alpha \in {ascii_lowercase, ascii_uppercase}, k \in 1..26}
        \cup {Run(digits, k) : k \in 1..10}
        \cup {MixedRun(k) : k \in 1..26}

Passwords ==
    Concats(MaxSegs)
        \cup {pre \o r : pre \in {<<>>, <<"K","q","7","#">>}, r \in Runs}

---------------------------------------------------------------------------
(* the state machine: one call per behaviour *)

min_value == 8      \* the slider's bounds
max_value == 30

Lengths == (-1)..max_value

Init ==
    /\ result = NoResult
    /\ gen_length = 0
    /\ remaining_length = 0
    /\ i = 0
    /\ generated_password = <<>>
    /\ \/ /\ pc = "check"
          /\ password \in Passwords
          /\ length = 16
          /\ include_special = TRUE
          /\ rng = 0
       \/ /\ pc = "generate"
          /\ password = <<>>
          /\ length \in Lengths
          /\ include_special \in BOOLEAN
          /\ rng \in 0..MaxSeed

\* score, strength, ... = check_password_strength(password)
CheckPassword ==
    /\ pc = "check"
    /\ result' = check_password_strength(password)
    /\ pc' = "checked"
    /\ UNCHANGED <<password, length, include_special, rng, gen_length,
                   remaining_length, i, generated_password>>

\* generate_strong_password(length) up to remaining_length = length - 4
strong_length(n) == IF n < 8 THEN 12 ELSE n

strong_seed(x) ==
    <<choice(x, ascii_lowercase),
      choice(next_rng(x), ascii_uppercase),
      choice(next_rng(next_rng(x)), digits),
      choice(next_rng(next_rng(next_rng(x))), special_chars)>>

strong_remaining(n) == n - 4

GenerateStrong ==
    /\ pc = "generate"
    /\ include_special
    /\ gen_length' = strong_length(length)
    /\ generated_password' = strong_seed(rng)
    /\ rng' = next_rng(next_rng(next_rng(next_rng(rng))))
    /\ remaining_length' = strong_remaining(gen_length')
    /\ pc' = "fill"
    /\ UNCHANGED <<password, result, length, include_special, i>>

\* main's generation without special characters, up to
\* remaining_length = length - 3
inline_length(n) == n

inline_seed(x) ==
    <<choice(x, ascii_lowercase),
      choice(next_rng(x), ascii_uppercase),
      choice(next_rng(next_rng(x)), digits)>>

\* variant: length - 4, as in generate_strong_password
inline_remaining_four(n) == n - 4

inline_remaining(n) == n - 3

GenerateInline ==
    /\ pc = "generate"
    /\ ~include_special
    /\ gen_length' = inline_length(length)
    /\ generated_password' = inline_seed(rng)
    /\ rng' = next_rng(next_rng(next_rng(rng)))
    /\ remaining_length' = inline_remaining(gen_length')
    /\ pc' = "fill"
    /\ UNCHANGED <<password, result, length, include_special, i>>

all_chars(special) ==
    IF special
    THEN ascii_lowercase \o ascii_uppercase \o digits \o special_chars
    ELSE ascii_lowercase \o ascii_uppercase \o digits

\* one round of password.extend(random.choice(all_chars) for _ in range(...))
Fill ==
    /\ pc = "fill"
    /\ remaining_length > 0
    /\ generated_password' =
           Append(generated_password, choice(rng, all_chars(include_special)))
    /\ rng' = next_rng(rng)
    /\ remaining_length' = remaining_length - 1
    /\ UNCHANGED <<pc, password, result, length, include_special, gen_length, i>>

\* range(remaining_length) is exhausted (at once when it is not positive);
\* random.shuffle starts: for i in reversed(range(1, len(x)))
StartShuffle ==
    /\ pc = "fill"
    /\ remaining_length <= 0
    /\ i' = Len(generated_password) - 1
    /\ pc' = "shuffle"
    /\ UNCHANGED <<password, result, length, include_special, rng, gen_length,
                   remaining_length, generated_password>>

\* x[i], x[j] = x[j], x[i], with 0-based i and j
swap(x, a, b) == [x EXCEPT ![a + 1] = x[b + 1], ![b + 1] = x[a + 1]]

\* one round of random.shuffle: j = randbelow(i + 1); swap
Shuffle ==
    /\ pc = "shuffle"
    /\ i >= 1
    /\ generated_password' = swap(generated_password, i, randbelow(rng, i + 1))
    /\ rng' = next_rng(rng)
    /\ i' = i - 1
    /\ UNCHANGED <<pc, password, result, length, include_special, gen_length,
                   remaining_length>>

\* ''.join(password), then main's
\* score, strength, _, _, _, color = check_password_strength(generated_password)
ShowGenerated ==
    /\ pc = "shuffle"
    /\ i < 1
    /\ password' = generated_password
    /\ result' = check_password_strength(generated_password)
    /\ pc' = "done"
    /\ UNCHANGED <<length, include_special, rng, gen_length, remaining_length,
                   i, generated_password>>

Next ==
    \/ CheckPassword
    \/ GenerateStrong
    \/ GenerateInline
    \/ Fill
    \/ StartShuffle
    \/ Shuffle
    \/ ShowGenerated

Spec == Init /\ [][Next]_vars

---------------------------------------------------------------------------
(* vocabulary of the properties *)

\* check_password_strength has returned for password
Evaluated == pc \in {"checked", "done"}

\* the generator has returned generated_password
Generated == pc = "done"

HasUpper(p) == \E k \in DOMAIN p : p[k] \in Range(ascii_uppercase)
HasLower(p) == \E k \in DOMAIN p : p[k] \in Range(ascii_lowercase)
HasDigit(p) == \E k \in DOMAIN p : p[k] \in Range(digits)
HasSpecial(p) == \E k \in DOMAIN p : p[k] \in Range(special_chars)

\* some character stands three times in a row
TripleRun(p) ==
    \E k \in 1..(Len(p) - 2) : p[k] = p[k+1] /\ p[k+1] = p[k+2]

\* the 3-character windows of abc...xyz and of 0123456789 followed by 0
AscendingWindows ==
    {SubSeq(ascii_lowercase, k, k + 2) : k \in 1..24}
        \cup {SubSeq(digits \o <<"0">>, k, k + 2) : k \in 1..9}

HasWindow(p) ==
    \E k \in 1..(Len(p) - 2) : SubSeq(lower(p), k, k + 2) \in AscendingWindows

\* password, 123456, qwerty, admin, welcome, password123
CommonList ==
    { <<"p","a","s","s","w","o","r","d">>, <<"1","2","3","4","5","6">>,
      <<"q","w","e","r","t","y">>, <<"a","d","m","i","n">>,
      <<"w","e","l","c","o","m","e">>,
      <<"p","a","s","s","w","o","r","d","1","2","3">> }

AllPass(c) ==
    /\ c.length = "Pass"
    /\ c.case = "Pass"
    /\ c.digit = "Pass"
    /\ c.special = "Pass"
    /\ c.no_patterns = "Pass"
    /\ c.not_common = "Pass"

Count(p, class) == Cardinality({k \in DOMAIN p : p[k] \in class})

---------------------------------------------------------------------------
(* properties *)

C2_CommonPasswordIsZero ==
    Evaluated =>
        IF lower(password) \in CommonList
        THEN /\ final_score(password) = 0
             /\ result.normalized_score = 0
             /\ result.strength = "Weak"
             /\ result.checks.not_common = "Fail"
        ELSE result.checks.not_common = "Pass"

\* a common password written with a capital, which had earned points, is
\* rated 0
C2_Witness ==
    /\ pc = "checked"
    /\ password \notin CommonList
    /\ lower(password) \in CommonList
    /\ pattern_score(password) > 0
    /\ result.normalized_score = 0
    /\ result.checks.not_common = "Fail"

\* C3: for a length in 8..30 the generated password has exactly that many
\* characters and holds a lowercase letter, an uppercase letter, a digit
\* and, with special characters asked for, a special character.
C3_GeneratedComposition ==
    (Generated /\ length \in min_value..max_value) =>
        /\ Len(generated_password) = length
        /\ HasLower(generated_password)
        /\ HasUpper(generated_password)
        /\ HasDigit(generated_password)
        /\ include_special => HasSpecial(generated_password)

\* a generated password whose only digit and only uppercase letter are the
\* ones drawn first
C3_Witness ==
    /\ Generated
    /\ length \in min_value..max_value
    /\ Len(generated_password) = length
    /\ Count(generated_password, Range(digits)) = 1
    /\ Count(generated_password, Range(ascii_uppercase)) = 1

C5_GeneratedAtLeastModerate ==
    (Generated /\ include_special /\ gen_length >= 12) =>
        result.strength \in {"Moderate", "Strong"}

\* a generated password with an ascending window and a triple run, rated
\* Moderate
C5_Witness ==
    /\ Generated
    /\ include_special
    /\ gen_length >= 12
    /\ HasWindow(generated_password)
    /\ TripleRun(generated_password)
    /\ result.strength = "Moderate"

\* normalized score, strength and color for each clamped raw score 0, 0.5,
\* ..., 4 (in half points), as C6 gives them
RatingTable ==
    [s \in 0..8 |->
        CASE s = 0 -> <<0, "Weak", "red">>
          [] s = 1 -> <<12, "Weak", "red">>
          [] s = 2 -> <<25, "Weak", "red">>
          [] s = 3 -> <<37, "Weak", "red">>
          [] s = 4 -> <<50, "Weak", "red">>
          [] s = 5 -> <<62, "Weak", "red">>
          [] s = 6 -> <<75, "Moderate", "orange">>
          [] s = 7 -> <<87, "Moderate", "orange">>
          [] s = 8 -> <<100, "Strong", "green">>]

C7_EmptyPassword ==
    (Evaluated /\ password = <<>>) =>
        /\ result.checks.length = "Fail"
        /\ result.checks.case = "Fail"
        /\ result.checks.digit = "Fail"
        /\ result.checks.special = "Fail"
        /\ result.checks.no_patterns = "Pass"
        /\ result.checks.not_common = "Pass"
        /\ final_score(password) = 0
        /\ result.normalized_score = 0
        /\ result.strength = "Weak"

\* the empty password has been rated
C7_Witness ==
    /\ pc = "checked"
    /\ password = <<>>
    /\ result.color = "red"

C9_PatternPenalties ==
    Evaluated =>
        /\ pattern_score(password) =
               positive_score(password)
                   - (IF HasWindow(password) THEN 1 ELSE 0)
                   - (IF TripleRun(password) THEN 1 ELSE 0)
        /\ HasWindow(password) <=> FB_SEQUENTIAL \in Range(result.feedback)
        /\ TripleRun(password) <=> FB_REPEATED \in Range(result.feedback)
        /\ result.checks.no_patterns = "Fail"
               <=> (HasWindow(password) \/ TripleRun(password))

\* C10: strength Strong, an empty feedback list, and all six criteria Pass
\* are equivalent.
C10_StrongIffNoFeedback ==
    Evaluated =>
        /\ result.strength = "Strong" <=> result.feedback = <<>>
        /\ result.feedback = <<>> <=> AllPass(result.checks)

\* a Strong rating without feedback and with all criteria Pass
C10_Witness ==
    /\ pc = "checked"
    /\ result.strength = "Strong"
    /\ result.feedback = <<>>
    /\ AllPass(result.checks)

====
